---- MODULE Spec2Model ----
(***************************************************************************)
(* Filter predicates, the query composer and the result limiter of the     *)
(* near-Earth-object close-approach query engine (filters.py).             *)
(***************************************************************************)
EXTENDS Integers, Sequences, FiniteSets, TLC

VARIABLES
    flt,        \* the AttributeFilter under construction / evaluation
    approach,   \* the CloseApproach a filter or a filter list is evaluated on
    result,     \* outcome of flt(approach)
    criteria,   \* keyword arguments of create_filters
    filters,    \* the list create_filters returned
    verdict,    \* outcome of testing every filter of the list on approach
    n,          \* the cap given to limit
    source,     \* the iterator given to limit, with its position
    isl,        \* the itertools.islice object limit returned
    out,        \* items the consumer received so far
    requested,  \* number of next() calls the consumer made on the islice
    drawn,      \* number of next() calls made on the source
    pc          \* position of the program driving the operations

vars == <<flt, approach, result, criteria, filters, verdict,
          n, source, isl, out, requested, drawn, pc>>

(***************************************************************************)
(* Bounds of the model.                                                    *)
(***************************************************************************)
MaxVal == 2
MaxLen == 3
MaxItem == 2
MaxN == 4
MaxRequests == 5

(***************************************************************************)
(* Python values.                                                          *)
(***************************************************************************)
None == [k |-> "None"]
NaN == [k |-> "nan"]
Num(x) == [k |-> "num", n |-> x]
Bool(b) == [k |-> "bool", b |-> b]
Date(d) == [k |-> "date", n |-> d]
Datetime(d, t) == [k |-> "datetime", day |-> d, tod |-> t]

\* Outcome of a call: a returned value or a raised exception.
Return(v) == [exc |-> "none", val |-> v]
Raise(e) == [exc |-> e, val |-> FALSE]

IsNumber(x) == x.k \in {"num", "bool", "nan"}
AsInt(x) == IF x.k = "bool" THEN (IF x.b THEN 1 ELSE 0) ELSE x.n
Comparable(a, b) ==
    \/ IsNumber(a) /\ IsNumber(b)
    \/ a.k = "date" /\ b.k = "date"
HasNaN(a, b) == a.k = "nan" \/ b.k = "nan"

eq(a, b) ==
    IF ~Comparable(a, b) THEN Return(a.k = "None" /\ b.k = "None")
    ELSE IF HasNaN(a, b) THEN Return(FALSE)
    ELSE Return(AsInt(a) = AsInt(b))

ge_strict(a, b) ==
    IF ~Comparable(a, b) THEN Raise("TypeError")
    ELSE IF HasNaN(a, b) THEN Return(FALSE)
    ELSE Return(AsInt(a) > AsInt(b))

ge(a, b) ==
    IF ~Comparable(a, b) THEN Raise("TypeError")
    ELSE IF HasNaN(a, b) THEN Return(FALSE)
    ELSE Return(AsInt(a) >= AsInt(b))

le(a, b) ==
    IF ~Comparable(a, b) THEN Raise("TypeError")
    ELSE IF HasNaN(a, b) THEN Return(FALSE)
    ELSE Return(AsInt(a) <= AsInt(b))

Ops == {"eq", "ge", "le"}
Apply(op, a, b) ==
    CASE op = "eq" -> eq(a, b)
      [] op = "ge" -> ge(a, b)
      [] op = "le" -> le(a, b)

(***************************************************************************)
(* Close approaches and their linked near-Earth objects.                   *)
(***************************************************************************)
Vals == 0..MaxVal
TimesOfDay == {0, 12}
UnknownDiameter == NaN
Diameters == {Num(x) : x \in Vals} \cup {UnknownDiameter}

Approaches ==
    [time : {Datetime(d, t) : d \in Vals, t \in TimesOfDay},
     distance : {Num(x) : x \in Vals},
     velocity : {Num(x) : x \in Vals},
     neo : [diameter : Diameters, hazardous : {Bool(TRUE), Bool(FALSE)}]]

NoApproach == [k |-> "no approach"]

datetime_date(t) == Date(t.day)

(***************************************************************************)
(* AttributeFilter and its subclasses.                                     *)
(***************************************************************************)
Classes == {"AttributeFilter", "DateFilter", "DistanceFilter",
            "VelocityFilter", "DiameterFilter", "HazardousFilter"}
Subclasses == Classes \ {"AttributeFilter"}

AttributeFilter_init(cls, op, value) == [cls |-> cls, op |-> op, value |-> value]

AttributeFilter_get_default(a) == Return(None)

AttributeFilter_get(a) == Raise("UnsupportedCriterionError")

DateFilter_get(a) == Return(datetime_date(a.time))

DistanceFilter_get(a) == Return(a.distance)

VelocityFilter_get(a) == Return(a.velocity)

DiameterFilter_get_zero(a) ==
    Return(IF a.neo.diameter.k = "nan" THEN Num(0) ELSE a.neo.diameter)

DiameterFilter_get(a) == Return(a.neo.diameter)

HazardousFilter_get(a) == Return(a.neo.hazardous)

get(cls, a) ==
    CASE cls = "AttributeFilter" -> AttributeFilter_get(a)
      [] cls = "DateFilter" -> DateFilter_get(a)
      [] cls = "DistanceFilter" -> DistanceFilter_get(a)
      [] cls = "VelocityFilter" -> VelocityFilter_get(a)
      [] cls = "DiameterFilter" -> DiameterFilter_get(a)
      [] cls = "HazardousFilter" -> HazardousFilter_get(a)

Compare(self, a) ==
    LET g == get(self.cls, a)
    IN IF g.exc # "none" THEN Raise(g.exc) ELSE Apply(self.op, g.val, self.value)

\* __call__ without the test for None
AttributeFilter_call_unguarded(self, a) == Compare(self, a)

\* __call__ testing the truthiness of the value instead of "is None"
AttributeFilter_call_falsy(self, a) ==
    IF self.value.k = "None" \/ (IsNumber(self.value) /\ ~HasNaN(self.value, self.value)
                                  /\ AsInt(self.value) = 0)
    THEN Return(TRUE)
    ELSE Compare(self, a)

AttributeFilter_call(self, a) ==
    IF self.value.k = "None" THEN Return(TRUE) ELSE Compare(self, a)

\* Reference values a filter of a class is built with.
RefValues(cls) ==
    CASE cls = "DateFilter" -> {None} \cup {Date(d) : d \in Vals}
      [] cls = "DiameterFilter" -> {None, NaN} \cup {Num(x) : x \in Vals}
      [] cls = "HazardousFilter" -> {None, Bool(TRUE), Bool(FALSE)}
      [] OTHER -> {None} \cup {Num(x) : x \in Vals}

NoFilter == [k |-> "no filter"]
Pending == [exc |-> "pending", val |-> FALSE]

(***************************************************************************)
(* Spec: one filter is constructed and then called on a close approach.    *)
(***************************************************************************)
IdleQuery ==
    /\ criteria = None
    /\ filters = <<>>
    /\ verdict = Pending

IdleLimit ==
    /\ n = None
    /\ source = None
    /\ isl = None
    /\ out = <<>>
    /\ requested = 0
    /\ drawn = 0

IdleFilter ==
    /\ flt = NoFilter
    /\ result = Pending

Init ==
    /\ pc = "filter"
    /\ flt = NoFilter
    /\ approach \in Approaches
    /\ result = Pending
    /\ IdleQuery
    /\ IdleLimit

Construct ==
    /\ pc = "filter"
    /\ flt = NoFilter
    /\ \E cls \in Classes : \E op \in Ops : \E value \in RefValues(cls) :
          flt' = AttributeFilter_init(cls, op, value)
    /\ UNCHANGED <<approach, result, criteria, filters, verdict,
                   n, source, isl, out, requested, drawn, pc>>

Call ==
    /\ pc = "filter"
    /\ flt # NoFilter
    /\ result = Pending
    /\ result' = AttributeFilter_call(flt, approach)
    /\ UNCHANGED <<flt, approach, criteria, filters, verdict,
                   n, source, isl, out, requested, drawn, pc>>

Next == Construct \/ Call

Spec == Init /\ [][Next]_vars

(***************************************************************************)
(* The query composer.                                                     *)
(***************************************************************************)
Opt(S) == {None} \cup S
Hazards == {Bool(TRUE), Bool(FALSE)}

\* Keyword arguments drawn for create_filters: each criterion is absent or
\* set, the ranges to the middle of the approaches' values.
CriteriaSet ==
    [date : Opt({Date(1)}), start_date : Opt({Date(1)}), end_date : Opt({Date(1)}),
     distance_min : Opt({Num(1)}), distance_max : Opt({Num(1)}),
     velocity_min : Opt({Num(1)}), velocity_max : Opt({Num(1)}),
     diameter_min : Opt({Num(1)}), diameter_max : Opt({Num(1)}),
     hazardous : Opt(Hazards)]

\* Approaches drawn for a query: every field below, at and above the
\* criteria's reference value, the diameter also unknown.
QueryVals == {0, 1, 2}
QueryApproaches ==
    [time : {Datetime(d, 12) : d \in QueryVals},
     distance : {Num(x) : x \in QueryVals},
     velocity : {Num(x) : x \in QueryVals},
     neo : [diameter : {Num(x) : x \in QueryVals} \cup {UnknownDiameter},
            hazardous : Hazards]]

\* create_filters leaving out the filters of absent criteria
create_filters_omitting(c) ==
    SelectSeq(<<AttributeFilter_init("DateFilter", "eq", c.date),
                AttributeFilter_init("DateFilter", "ge", c.start_date),
                AttributeFilter_init("DateFilter", "le", c.end_date),
                AttributeFilter_init("DistanceFilter", "ge", c.distance_min),
                AttributeFilter_init("DistanceFilter", "le", c.distance_max),
                AttributeFilter_init("VelocityFilter", "ge", c.velocity_min),
                AttributeFilter_init("VelocityFilter", "le", c.velocity_max),
                AttributeFilter_init("DiameterFilter", "ge", c.diameter_min),
                AttributeFilter_init("DiameterFilter", "le", c.diameter_max),
                AttributeFilter_init("HazardousFilter", "eq", c.hazardous)>>,
              LAMBDA f : f.value # None)

\* create_filters with the comparators of the velocity bounds exchanged
create_filters_swapped(c) ==
    <<AttributeFilter_init("DateFilter", "eq", c.date),
      AttributeFilter_init("DateFilter", "ge", c.start_date),
      AttributeFilter_init("DateFilter", "le", c.end_date),
      AttributeFilter_init("DistanceFilter", "ge", c.distance_min),
      AttributeFilter_init("DistanceFilter", "le", c.distance_max),
      AttributeFilter_init("VelocityFilter", "le", c.velocity_min),
      AttributeFilter_init("VelocityFilter", "ge", c.velocity_max),
      AttributeFilter_init("DiameterFilter", "ge", c.diameter_min),
      AttributeFilter_init("DiameterFilter", "le", c.diameter_max),
      AttributeFilter_init("HazardousFilter", "eq", c.hazardous)>>

create_filters(c) ==
    <<AttributeFilter_init("DateFilter", "eq", c.date),
      AttributeFilter_init("DateFilter", "ge", c.start_date),
      AttributeFilter_init("DateFilter", "le", c.end_date),
      AttributeFilter_init("DistanceFilter", "ge", c.distance_min),
      AttributeFilter_init("DistanceFilter", "le", c.distance_max),
      AttributeFilter_init("VelocityFilter", "ge", c.velocity_min),
      AttributeFilter_init("VelocityFilter", "le", c.velocity_max),
      AttributeFilter_init("DiameterFilter", "ge", c.diameter_min),
      AttributeFilter_init("DiameterFilter", "le", c.diameter_max),
      AttributeFilter_init("HazardousFilter", "eq", c.hazardous)>>

\* Testing the filters fs on approach a in the given order of positions,
\* stopping at the first one that is not True or running them all; an
\* exception raised by a filter that is run propagates.
RECURSIVE MatchFrom(_, _, _, _, _, _)
MatchFrom(fs, a, order, shortCircuit, i, acc) ==
    IF i > Len(order) THEN Return(acc)
    ELSE LET r == AttributeFilter_call(fs[order[i]], a)
         IN IF r.exc # "none" THEN Raise(r.exc)
            ELSE IF shortCircuit /\ ~r.val THEN Return(FALSE)
            ELSE MatchFrom(fs, a, order, shortCircuit, i + 1, acc /\ r.val)

Match(fs, a, order, shortCircuit) == MatchFrom(fs, a, order, shortCircuit, 1, TRUE)

Forward(fs) == [i \in 1..Len(fs) |-> i]
Reverse(fs) == [i \in 1..Len(fs) |-> Len(fs) + 1 - i]
\* the positions from the middle on, then the ones before it
Rotated(fs) ==
    [i \in 1..Len(fs) |-> ((i - 1 + Len(fs) \div 2) % Len(fs)) + 1]
Orders(fs) == {Forward(fs), Reverse(fs), Rotated(fs)}

(***************************************************************************)
(* QuerySpec: create_filters is called on drawn criteria and the list it   *)
(* returns is tested on a close approach.                                  *)
(***************************************************************************)
QueryInit ==
    /\ pc = "query"
    /\ criteria \in CriteriaSet
    /\ filters = <<>>
    /\ approach = NoApproach
    /\ verdict = Pending
    /\ IdleFilter
    /\ IdleLimit

CreateFilters ==
    /\ pc = "query"
    /\ filters' = create_filters(criteria)
    /\ pc' = "created"
    /\ UNCHANGED <<flt, approach, result, criteria, verdict,
                   n, source, isl, out, requested, drawn>>

MatchApproach ==
    /\ pc = "created"
    /\ \E a \in QueryApproaches :
          /\ approach' = a
          /\ verdict' = Match(filters, a, Forward(filters), TRUE)
    /\ pc' = "matched"
    /\ UNCHANGED <<flt, result, criteria, filters,
                   n, source, isl, out, requested, drawn>>

QueryNext == CreateFilters \/ MatchApproach

QuerySpec == QueryInit /\ [][QueryNext]_vars

(***************************************************************************)
(* The result limiter.                                                     *)
(***************************************************************************)
\* A source iterator: it yields its items, and then, by its tail, signals
\* StopIteration ("stop"), raises ("raise") or goes on yielding for ever
\* ("more", the filler item 0).
Items == UNION {[1..l -> 1..MaxItem] : l \in 0..MaxLen}
Tails == {"stop", "raise", "more"}
Sources == [items : Items, tail : Tails, pos : {0}]

source_next(src) ==
    IF src.pos < Len(src.items)
    THEN [src |-> [src EXCEPT !.pos = @ + 1], outcome |-> "yield",
          item |-> src.items[src.pos + 1]]
    ELSE CASE src.tail = "stop" ->
                [src |-> src, outcome |-> "StopIteration", item |-> 0]
           [] src.tail = "raise" ->
                [src |-> src, outcome |-> "SourceError", item |-> 0]
           [] src.tail = "more" ->
                [src |-> [src EXCEPT !.pos = @ + 1], outcome |-> "yield",
                 item |-> 0]

\* itertools.islice(iterator, start, stop): nothing is drawn on construction.
islice(start, stop) == [alive |-> TRUE, cnt |-> start, stop |-> stop]

Exhausted(i, src) ==
    [isl |-> [i EXCEPT !.alive = FALSE], src |-> src,
     outcome |-> "StopIteration", item |-> 0, draws |-> 0]

Drawing(i, r) ==
    IF r.outcome = "yield"
    THEN [isl |-> [i EXCEPT !.cnt = @ + 1], src |-> r.src,
          outcome |-> "yield", item |-> r.item, draws |-> 1]
    ELSE [isl |-> [i EXCEPT !.alive = FALSE], src |-> r.src,
          outcome |-> r.outcome, item |-> 0, draws |-> 1]

\* next() drawing from the source before testing the stop count
islice_next_eager(i, src) ==
    IF ~i.alive THEN Exhausted(i, src)
    ELSE LET r == source_next(src)
         IN IF i.stop # None /\ i.cnt >= i.stop.n
            THEN [Exhausted(i, r.src) EXCEPT !.draws = 1,
                     !.outcome = IF r.outcome = "SourceError"
                                 THEN "SourceError" ELSE "StopIteration"]
            ELSE Drawing(i, r)

\* next() letting one item more than the stop count through
islice_next_late(i, src) ==
    IF ~i.alive THEN Exhausted(i, src)
    ELSE IF i.stop # None /\ i.cnt > i.stop.n THEN Exhausted(i, src)
    ELSE Drawing(i, source_next(src))

\* next() on the islice: at most one draw from the source, none once the
\* stop count is reached or the source has ended.
islice_next(i, src) ==
    IF ~i.alive THEN Exhausted(i, src)
    ELSE IF i.stop # None /\ i.cnt >= i.stop.n THEN Exhausted(i, src)
    ELSE Drawing(i, source_next(src))

\* limit passing a cap of 0 on to islice
limit_zero_cap(cap) == islice(0, cap)

limit(cap) == islice(0, IF eq(cap, Num(0)).val THEN None ELSE cap)

(***************************************************************************)
(* LimitSpec: limit is called on a source and a cap, and a consumer calls  *)
(* next() on the stream it returned.                                       *)
(***************************************************************************)
Caps == Opt({Num(k) : k \in 0..MaxN})

LimitInit ==
    /\ pc = "limit"
    /\ n \in Caps
    /\ source \in Sources
    /\ isl = None
    /\ out = <<>>
    /\ requested = 0
    /\ drawn = 0
    /\ approach = NoApproach
    /\ IdleFilter
    /\ IdleQuery

CallLimit ==
    /\ pc = "limit"
    /\ isl' = limit(n)
    /\ pc' = "iterating"
    /\ UNCHANGED <<flt, approach, result, criteria, filters, verdict,
                   n, source, out, requested, drawn>>

NextItem ==
    /\ pc \in {"iterating", "exhausted"}
    /\ requested < MaxRequests
    /\ LET r == islice_next(isl, source)
       IN /\ isl' = r.isl
          /\ source' = r.src
          /\ drawn' = drawn + r.draws
          /\ out' = IF r.outcome = "yield" THEN Append(out, r.item) ELSE out
          /\ pc' = CASE r.outcome = "yield" -> "iterating"
                     [] r.outcome = "StopIteration" -> "exhausted"
                     [] OTHER -> "failed"
    /\ requested' = requested + 1
    /\ UNCHANGED <<flt, approach, result, criteria, filters, verdict, n>>

LimitNext == CallLimit \/ NextItem

LimitSpec == LimitInit /\ [][LimitNext]_vars

(***************************************************************************)
(* Properties of a single filter (Spec).                                   *)
(***************************************************************************)
Called == flt # NoFilter /\ result # Pending

\* C1 (vacuous-filter law): a filter of any class, with any comparator, whose
\* reference value is None returns True on every close approach, whatever the
\* approach's fields are (an unknown diameter included).
C1_VacuousFilter ==
    (Called /\ flt.value = None) => result = Return(TRUE)

C1_Witness ==
    /\ Called
    /\ flt.value = None
    /\ flt.cls = "DiameterFilter"
    /\ flt.op = "ge"
    /\ approach.neo.diameter = UnknownDiameter
    /\ result = Return(TRUE)

\* C4 (unknown-diameter policy): on an approach whose NEO has no known
\* diameter, a DiameterFilter with ge or le and any present numeric bound
\* (0 included) returns False and raises nothing.
C4_UnknownDiameterFails ==
    (/\ Called
     /\ flt.cls = "DiameterFilter"
     /\ flt.op \in {"ge", "le"}
     /\ flt.value.k = "num"
     /\ approach.neo.diameter = UnknownDiameter) => result = Return(FALSE)

C4_Witness ==
    /\ Called
    /\ flt = AttributeFilter_init("DiameterFilter", "ge", Num(0))
    /\ approach.neo.diameter = UnknownDiameter
    /\ result = Return(FALSE)

\* C8 as stated: a filter of the unspecialised base class never hands back a
\* boolean verdict, for any reference value and any approach.
C8_BaseNeverReturns ==
    ~(Called /\ flt.cls = "AttributeFilter" /\ result.exc = "none")

\* C8 as amended: constructing a base-class filter succeeds; calling it with a
\* present reference value raises UnsupportedCriterionError, calling it with
\* the reference value None returns True; the five subclasses never raise,
\* and no call raises any other kind of error.
C8_UnsupportedOnCall ==
    Called =>
        /\ (flt.cls = "AttributeFilter" /\ flt.value # None)
              => result = Raise("UnsupportedCriterionError")
        /\ (flt.cls = "AttributeFilter" /\ flt.value = None)
              => result = Return(TRUE)
        /\ flt.cls \in Subclasses => result.exc = "none"
        /\ result.exc \in {"none", "UnsupportedCriterionError"}

C8_Witness ==
    /\ Called
    /\ flt.cls = "AttributeFilter"
    /\ flt.value = Num(0)
    /\ result = Raise("UnsupportedCriterionError")

\* The approach's own value of the field a filter class reads.
OwnValue(cls, a) == get(cls, a).val

\* C10 as stated (reflexivity at the boundary): for each of the five fields
\* and every approach, the eq, ge and le filters whose reference value is the
\* approach's own field value return True.
C10_Reflexive ==
    (/\ Called
     /\ flt.cls \in Subclasses
     /\ flt.value = OwnValue(flt.cls, approach)) => result = Return(TRUE)

\* C10 as amended: the same, for every field value that is known; on the
\* diameter of an approach whose NEO has no known diameter the three filters
\* return False.
C10_ReflexiveWhenKnown ==
    (/\ Called
     /\ flt.cls \in Subclasses
     /\ flt.value = OwnValue(flt.cls, approach))
        => result = Return(flt.value # UnknownDiameter)

C10_Witness ==
    /\ Called
    /\ flt.cls = "HazardousFilter"
    /\ flt.op = "ge"
    /\ flt.value = OwnValue(flt.cls, approach)
    /\ result = Return(TRUE)

(***************************************************************************)
(* Properties of the query composer (QuerySpec).                           *)
(***************************************************************************)
\* Class, comparator and criterion of the ten filters, in order.
FilterTable ==
    <<<<"DateFilter", "eq", "date">>,
      <<"DateFilter", "ge", "start_date">>,
      <<"DateFilter", "le", "end_date">>,
      <<"DistanceFilter", "ge", "distance_min">>,
      <<"DistanceFilter", "le", "distance_max">>,
      <<"VelocityFilter", "ge", "velocity_min">>,
      <<"VelocityFilter", "le", "velocity_max">>,
      <<"DiameterFilter", "ge", "diameter_min">>,
      <<"DiameterFilter", "le", "diameter_max">>,
      <<"HazardousFilter", "eq", "hazardous">>>>

Created == pc \in {"created", "matched"}
Matched == pc = "matched"

\* C2: whichever criteria are present, create_filters returns exactly ten
\* filters in the fixed order date =, date >=, date <=, distance >=,
\* distance <=, velocity >=, velocity <=, diameter >=, diameter <=,
\* hazardous =, each holding its criterion as reference value; the filters of
\* absent criteria are in the list, with the value None.
C2_TenFiltersInOrder ==
    Created =>
        /\ Len(filters) = 10
        /\ \A i \in 1..10 :
              /\ filters[i].cls = FilterTable[i][1]
              /\ filters[i].op = FilterTable[i][2]
              /\ filters[i].value = criteria[FilterTable[i][3]]

C2_Witness ==
    /\ Created
    /\ Len(filters) = 10
    /\ criteria.date = None
    /\ criteria.distance_max # None
    /\ criteria.diameter_min = None
    /\ criteria.hazardous = Bool(FALSE)
    /\ filters[1].value = None
    /\ filters[5].value = Num(1)

\* What each criterion asks of an approach, stated on the approach's fields.
Day(a) == a.time.day
Known(d) == d.k = "num"
Satisfies(c, a) ==
    /\ c.date # None => Day(a) = c.date.n
    /\ c.start_date # None => Day(a) >= c.start_date.n
    /\ c.end_date # None => Day(a) <= c.end_date.n
    /\ c.distance_min # None => a.distance.n >= c.distance_min.n
    /\ c.distance_max # None => a.distance.n <= c.distance_max.n
    /\ c.velocity_min # None => a.velocity.n >= c.velocity_min.n
    /\ c.velocity_max # None => a.velocity.n <= c.velocity_max.n
    /\ c.diameter_min # None =>
          Known(a.neo.diameter) /\ a.neo.diameter.n >= c.diameter_min.n
    /\ c.diameter_max # None =>
          Known(a.neo.diameter) /\ a.neo.diameter.n <= c.diameter_max.n
    /\ c.hazardous # None => a.neo.hazardous.b = c.hazardous.b

\* C3 (conjunctive composition): an approach matches the list built by
\* create_filters exactly when it satisfies every criterion that is present,
\* and the verdict is the same in every order of the filters, with or without
\* stopping at the first False.
C3_Conjunctive ==
    Matched =>
        /\ verdict = Return(Satisfies(criteria, approach))
        /\ \A order \in Orders(filters) : \A shortCircuit \in BOOLEAN :
              Match(filters, approach, order, shortCircuit) = verdict

ActiveCount(c) == Cardinality({f \in DOMAIN c : c[f] # None})

C3_Witness ==
    /\ Matched
    /\ ActiveCount(criteria) = 10
    /\ verdict = Return(TRUE)

\* C9 (hazardous tri-state): with hazardous None the hazardous filter returns
\* True on hazardous and on non-hazardous approaches; with False it returns
\* True exactly on the non-hazardous ones, with True exactly on the hazardous
\* ones; False is a constraint, and alone it decides the verdict.
C9_HazardousTriState ==
    Matched =>
        LET h == AttributeFilter_call(filters[Len(filters)], approach)
            isHazardous == approach.neo.hazardous.b
        IN /\ criteria.hazardous = None => h = Return(TRUE)
           /\ criteria.hazardous = Bool(FALSE) => h = Return(~isHazardous)
           /\ criteria.hazardous = Bool(TRUE) => h = Return(isHazardous)
           /\ ActiveCount(criteria) = 1 /\ criteria.hazardous # None
                 => verdict = h

C9_Witness ==
    /\ Matched
    /\ criteria.hazardous = Bool(FALSE)
    /\ ActiveCount(criteria) = 1
    /\ approach.neo.hazardous = Bool(TRUE)
    /\ verdict = Return(FALSE)

(***************************************************************************)
(* Properties of the limiter (LimitSpec).                                  *)
(***************************************************************************)
Min(a, b) == IF a < b THEN a ELSE b
Capped == n # None /\ n # Num(0)

\* C5 (pass-through): with the cap None or 0, a consumer that runs a finite
\* source to its end has received exactly the source's items, all of them,
\* in their order.
C5_PassThrough ==
    (pc = "exhausted" /\ ~Capped /\ source.tail = "stop")
        => out = source.items

C5_Witness ==
    /\ pc = "exhausted"
    /\ n = Num(0)
    /\ source.tail = "stop"
    /\ Len(source.items) = MaxLen
    /\ out = source.items

\* C6 (prefix): with a cap k > 0, a consumer that runs the stream to its end
\* has received exactly the first min(k, len) items of the source, in their
\* order.
C6_Prefix ==
    (/\ pc = "exhausted"
     /\ Capped
     /\ source.tail = "stop" \/ n.n <= Len(source.items))
        => out = SubSeq(source.items, 1, Min(n.n, Len(source.items)))

C6_Witness ==
    /\ pc = "exhausted"
    /\ n = Num(2)
    /\ Len(source.items) = 3
    /\ out = SubSeq(source.items, 1, 2)
    /\ out[1] # out[2]

\* C7 (laziness): with a cap k > 0, at every moment the number of draws from
\* the source is at most min(requests of the consumer, k); so a source that
\* raises after its first k items never makes the stream fail, and on a
\* source without end the stream ends at the request after the k-th.
C7_Lazy ==
    (pc # "limit" /\ Capped) =>
        /\ drawn <= Min(requested, n.n)
        /\ (source.tail = "raise" /\ Len(source.items) >= n.n) => pc # "failed"
        /\ (source.tail = "more" /\ requested > n.n) => pc = "exhausted"

C7_Witness ==
    /\ pc = "exhausted"
    /\ n = Num(2)
    /\ source.tail = "raise"
    /\ Len(source.items) = 2
    /\ requested > 3
    /\ drawn = 2

====
